---------------------------- MODULE Spec2Model ----------------------------
(***************************************************************************)
(* A model of brightsky's ingestion core: the format dispatcher            *)
(* (parsers.get_parser), the polling orchestrator (tasks.poll) and the     *)
(* worker task (worker.process -> tasks.parse), the wind-gust aggregator,  *)
(* the station location resolver and the forecast sanitizer.               *)
(*                                                                         *)
(* The module holds several specifications over one set of variables:      *)
(*   Spec          the orchestrator: pollers, workers, queue and locks     *)
(*   SpecDispatch  get_parser applied to bounded resource names            *)
(*   SpecGusts     WindGustsObservationsParser.parse_reader, row by row    *)
(*   SpecHistory   parse_lat_lon_history and _station_params               *)
(*   SpecSanitize  MOSMIXParser.sanitize_records, record by record         *)
(*   SpecPolls     the orchestrator with two poll runs under way together  *)
(*   SpecTask      one tasks.parse(url=...) call and the files it touches  *)
(* A specification leaves the variables of the other components at their   *)
(* initial values.                                                         *)
(***************************************************************************)
EXTENDS Integers, Sequences, FiniteSets, TLC

VARIABLES
    \* ---- orchestrator (tasks.poll, worker.process, tasks.parse)
    listing,        \* the remote listing: the resource ids discoverable now, in order
    remote,         \* resource id -> version of the bytes on the remote server
    parsed_files,   \* resource id -> last persisted fingerprint (0: none)
    exported,       \* resource id -> number of records in the store
    queue,          \* huey's pending tasks: sequence of [url, priority]
    locks,          \* resource id -> [age in ticks, owner] of its lock, or NoLock
    worker,         \* worker id -> [pc, url, fingerprint, records]
    poller,         \* poller id -> state of one tasks.poll(enqueue=True) run
    polled,         \* history: a poll run completed since the last remote change
    \* ---- dispatcher (parsers.get_parser)
    filename,       \* the resource name handed to get_parser
    parser_cls,     \* what get_parser returned for it
    parse_outcome,  \* how tasks.parse(url=filename) went on from there
    \* ---- station location resolver (ObservationsParser)
    geo_rows,       \* the rows of the geography-metadata file
    geo_reader,     \* the rows parse_lat_lon_history has not read yet
    history,        \* the dict it builds: sequence of <<date, info>>, in
                    \* insertion order
    lookup_time,    \* the timestamp handed to _station_params
    info,           \* what _station_params returned
    history_pc,
    \* ---- forecast sanitizer (MOSMIXParser.sanitize_records)
    forecast,       \* the records handed to sanitize_records, as they were
    forecast_left,  \* the records it has not reached yet
    sanitized,      \* the records it has yielded
    \* ---- wind-gust aggregator (WindGustsObservationsParser.parse_reader)
    settings,       \* [MIN_DATE, MAX_DATE], in minutes; MAX_DATE may be None
    gust_path,      \* self.path
    gust_rows,      \* the rows of the product file
    reader,         \* the rows not read yet
    row_timestamp,  \* the local variable timestamp, Unbound before the loop
    hour_values,    \* the list hour_values
    gust_records,   \* the records yielded so far
    gust_pc,
    \* ---- the files of one tasks.parse(url=...) call
    keep_downloads,     \* settings.KEEP_DOWNLOADS
    downloaded_files,   \* parser.downloaded_files
    disk,               \* the paths that exist on disk
    opened,             \* the archive at parser.path has been opened
    removed             \* the paths os.remove has deleted in cleanup

orchVars == <<listing, remote, parsed_files, exported, queue, locks, worker,
              poller, polled>>
dispatchVars == <<filename, parser_cls, parse_outcome>>
historyVars == <<geo_rows, geo_reader, history, lookup_time, info, history_pc>>
sanitizeVars == <<forecast, forecast_left, sanitized>>
gustVars == <<settings, gust_path, gust_rows, reader, row_timestamp, hour_values,
              gust_records, gust_pc>>
taskVars == <<keep_downloads, downloaded_files, disk, opened, removed>>
notOrch == <<dispatchVars, historyVars, sanitizeVars, gustVars, taskVars, taskVars>>
vars == <<orchVars, notOrch>>

\* Python values: None, and a number x as Float(x).
None == [name |-> "NoneType"]
Float(x) == [float |-> x]

\* The truth value Python gives a float or None in a condition.
Truthy(x) == x # None /\ x.float # 0

(***************************************************************************)
(* Resource names are sequences of characters, so that pattern matching is *)
(* computed character by character as re.match does.                       *)
(***************************************************************************)
Stundenwerte ==
    <<"s", "t", "u", "n", "d", "e", "n", "w", "e", "r", "t", "e", "_">>

Lit_MOSMIX ==
    <<"M", "O", "S", "M", "I", "X", "_", "S", "_", "L", "A", "T", "E", "S",
      "T", "_", "2", "4", "0", ".", "k", "m", "z">>

Lit_BEOB ==
    <<"-", "B", "E", "O", "B", ".", "c", "s", "v">>

Lit_FX ==
    <<"1", "0", "m", "i", "n", "u", "t", "e", "n", "w", "e", "r", "t", "e",
      "_", "e", "x", "t", "r", "e", "m", "a", "_", "w", "i", "n", "d", "_">>

\* The characters \w does not match, among those resource names are built of.
NonWordChars == {".", "-", "/"}

\* One pattern atom against one character: "\\w" is the class \w, any other
\* atom is a literal character (an escaped \. is the literal ".").
AtomMatches(atom, c) ==
    IF atom = "\\w" THEN c \notin NonWordChars ELSE atom = c

\* re.match(pattern, string): the pattern must match at the start of the
\* string; a pattern ending in $ must also reach the string's end.
re_match(pattern, string) ==
    LET n == Len(pattern.atoms)
    IN  /\ Len(string) >= n
        /\ \A k \in 1..n : AtomMatches(pattern.atoms[k], string[k])
        /\ pattern.anchored => Len(string) = n

re_search(pattern, string) ==
    \E off \in 0..Len(string) :
        re_match(pattern, SubSeq(string, off + 1, Len(string)))

Unanchored(atoms) == [atoms |-> atoms, anchored |-> FALSE]
Anchored(atoms) == [atoms |-> atoms, anchored |-> TRUE]

\* The parser classes, each with its PRIORITY (Parser.PRIORITY is 10).
MOSMIXParser == [name |-> "MOSMIXParser", PRIORITY |-> 20]
CurrentObservationsParser ==
    [name |-> "CurrentObservationsParser", PRIORITY |-> 30]
ObservationsParserClass(name) == [name |-> name, PRIORITY |-> 10]

\* get_parser's table, in the order of the dict literal.
parsers ==
    << [pattern |-> Anchored(Lit_MOSMIX), parser |-> MOSMIXParser],
       [pattern |-> Anchored(<<"\\w", "\\w", "\\w", "\\w", "\\w">> \o Lit_BEOB),
        parser |-> CurrentObservationsParser],
       [pattern |-> Unanchored(Stundenwerte \o <<"F", "F", "_">>),
        parser |-> ObservationsParserClass("WindObservationsParser")],
       [pattern |-> Unanchored(Stundenwerte \o <<"N", "_">>),
        parser |-> ObservationsParserClass("CloudCoverObservationsParser")],
       [pattern |-> Unanchored(Stundenwerte \o <<"P", "0", "_">>),
        parser |-> ObservationsParserClass("PressureObservationsParser")],
       [pattern |-> Unanchored(Stundenwerte \o <<"R", "R", "_">>),
        parser |-> ObservationsParserClass("PrecipitationObservationsParser")],
       [pattern |-> Unanchored(Stundenwerte \o <<"S", "D", "_">>),
        parser |-> ObservationsParserClass("SunshineObservationsParser")],
       [pattern |-> Unanchored(Stundenwerte \o <<"T", "D", "_">>),
        parser |-> ObservationsParserClass("DewPointObservationsParser")],
       [pattern |-> Unanchored(Stundenwerte \o <<"T", "U", "_">>),
        parser |-> ObservationsParserClass("TemperatureObservationsParser")],
       [pattern |-> Unanchored(Stundenwerte \o <<"V", "V", "_">>),
        parser |-> ObservationsParserClass("VisibilityObservationsParser")],
       [pattern |-> Unanchored(Lit_FX),
        parser |-> ObservationsParserClass("WindGustsObservationsParser")] >>

\* The loop of get_parser from rule i on: the parser of the first rule whose
\* pattern matches; falling off the end of the function returns None.
RECURSIVE get_parser_from(_, _)
get_parser_from(i, name) ==
    IF i > Len(parsers) THEN None
    ELSE IF re_match(parsers[i].pattern, name) THEN parsers[i].parser
    ELSE get_parser_from(i + 1, name)

\* get_parser with re.search in place of re.match.
RECURSIVE get_parser_search_from(_, _)
get_parser_search_from(i, name) ==
    IF i > Len(parsers) THEN None
    ELSE IF re_search(parsers[i].pattern, name) THEN parsers[i].parser
    ELSE get_parser_search_from(i + 1, name)

get_parser_search(name) == get_parser_search_from(1, name)

get_parser(name) == get_parser_from(1, name)


(***************************************************************************)
(* The orchestrator.                                                       *)
(***************************************************************************)
Workers == {"w1", "w2"}
Pollers == {"p1", "p2"}

\* The remote resources: a recent wind archive, the forecast file, and a
\* file no dispatcher rule knows.
Resources == {"wind", "mosmix", "readme"}

Directory == <<"d", "/">>

Url(r) ==
    CASE r = "wind" ->
            Directory \o Stundenwerte
                \o <<"F", "F", "_", "0", "1", "_", "a", "k", "t", ".", "z", "i", "p">>
      [] r = "mosmix" -> Directory \o Lit_MOSMIX
      [] OTHER -> Directory \o <<"r", "e", "a", "d", "m", "e", ".", "t", "x", "t">>

\* os.path.basename: what follows the last "/".
basename(path) ==
    LET slashes == {i \in 1..Len(path) : path[i] = "/"}
        last == IF slashes = {} THEN 0
                ELSE CHOOSE i \in slashes : \A j \in slashes : j <= i
    IN  SubSeq(path, last + 1, Len(path))

MaxVersion == 2     \* remote versions of one resource
MaxRecords == 1     \* records parse() yields for one resource
MaxQueue == 2       \* pending tasks
MaxAgeTicks == 2    \* lock ages are counted up to this many ticks

LockTimeout == 1800                 \* huey.expire_locks(1800)
TickSeconds == LockTimeout           \* one step of the clock
NoLock == [age |-> -1, owner |-> "-"]
NoUrl == "-"

IdleWorker == [pc |-> "idle", url |-> NoUrl, fingerprint |-> 0, records |-> 0]
IdlePoller == [pc |-> "idle", updated |-> <<>>, pending_urls |-> {},
               enq |-> {}, owed |-> {}, run |-> "dirty"]

\* The states in which process(url) is inside `with huey.lock_task(url)`.
Body == {"download", "parse", "cleanup", "export"}

is_locked(r) == locks[r] # NoLock

\* A lock is expired once it is older than the timeout.
Expired(r) == is_locked(r) /\ locks[r].age * TickSeconds > LockTimeout

\* A lock whose owner is no longer inside the task that took it: the owner
\* crashed (or was restarted) without releasing it.
Stale(r) ==
    /\ is_locked(r)
    /\ ~(worker[locks[r].owner].url = r /\ worker[locks[r].owner].pc \in Body)

\* DWDPoller().poll(): the listed resources whose fingerprint differs from
\* the one persisted at the last successful export, in listing order.
Changed(r) == parsed_files[r] # remote[r]
DWDPoller_poll == SelectSeq(listing, Changed)
Listed == {listing[i] : i \in 1..Len(listing)}

\* huey.expire_locks(timeout): removes the expired locks.
expire_locks == [r \in Resources |-> IF Expired(r) THEN NoLock ELSE locks[r]]

\* huey.pending(): the tasks enqueued and not yet taken by a worker.
pending == {queue[i].url : i \in 1..Len(queue)}

OrchInit ==
    /\ listing = <<"wind">>
    /\ remote = [r \in Resources |-> 1]
    /\ parsed_files = [r \in Resources |-> 0]
    /\ exported = [r \in Resources |-> 0]
    /\ queue = <<>>
    /\ locks = [r \in Resources |-> NoLock]
    /\ worker = [w \in Workers |-> IdleWorker]
    /\ poller = [p \in Pollers |-> IdlePoller]
    /\ polled = FALSE

DispatchIdle ==
    /\ filename = <<>>
    /\ parser_cls = None
    /\ parse_outcome = "-"

HistoryIdle ==
    /\ geo_rows = <<>>
    /\ geo_reader = <<>>
    /\ history = <<>>
    /\ lookup_time = 0
    /\ info = None
    /\ history_pc = "-"

SanitizeIdle ==
    /\ forecast = <<>>
    /\ forecast_left = <<>>
    /\ sanitized = <<>>

\* The local variable timestamp before any assignment has bound it (the
\* timestamps of rows are never negative).
Unbound == -1

GustsIdle ==
    /\ settings = [MIN_DATE |-> 0, MAX_DATE |-> None]
    /\ gust_path = <<>>
    /\ gust_rows = <<>>
    /\ reader = <<>>
    /\ row_timestamp = Unbound
    /\ hour_values = <<>>
    /\ gust_records = <<>>
    /\ gust_pc = "-"

TaskIdle ==
    /\ keep_downloads = FALSE
    /\ downloaded_files = {}
    /\ disk = {}
    /\ opened = FALSE
    /\ removed = {}

Init ==
    /\ OrchInit
    /\ DispatchIdle
    /\ HistoryIdle
    /\ SanitizeIdle
    /\ GustsIdle
    /\ TaskIdle
    /\ TaskIdle


(***************************************************************************)
(* tasks.poll(enqueue=True), one step per access to shared state.          *)
(***************************************************************************)
SetPoller(p, rec) == poller' = [poller EXCEPT ![p] = rec]

\* updated_files = DWDPoller().poll().  The periodic trigger starts a run
\* when the previous run of this poller has ended.
PollStart(p) ==
    /\ poller[p].pc \in {"idle", "done", "failed"}
    /\ SetPoller(p, [pc |-> "expire", updated |-> DWDPoller_poll,
                     pending_urls |-> {}, enq |-> {},
                     owed |-> {r \in Resources :
                                 /\ Stale(r) /\ Expired(r)
                                 /\ \E i \in 1..Len(DWDPoller_poll) :
                                        DWDPoller_poll[i] = r},
                     run |-> IF polled THEN "second" ELSE "first"])
    /\ UNCHANGED <<notOrch, listing, remote, parsed_files, exported, queue, locks,
                   worker, polled>>

\* huey.expire_locks(1800)
PollExpireLocks(p) ==
    /\ poller[p].pc = "expire"
    /\ locks' = expire_locks
    /\ SetPoller(p, [poller[p] EXCEPT !.pc = "pending"])
    /\ UNCHANGED <<notOrch, listing, remote, parsed_files, exported, queue, worker,
                   polled>>

\* pending_urls = [t.args[0] for t in huey.pending() if t.name == 'process']
PollReadPending(p) ==
    /\ poller[p].pc = "pending"
    /\ SetPoller(p, [poller[p] EXCEPT !.pc = "loop", !.pending_urls = pending])
    /\ UNCHANGED <<notOrch, listing, remote, parsed_files, exported, queue, locks,
                   worker, polled>>

\* The head of the loop for the next updated file: `url in pending_urls`
\* and huey.is_locked(url); either one skips the file.
PollCheck(p) ==
    /\ poller[p].pc = "loop"
    /\ poller[p].updated # <<>>
    /\ LET url == Head(poller[p].updated)
       IN  IF url \in poller[p].pending_urls \/ is_locked(url)
           THEN SetPoller(p, [poller[p] EXCEPT !.updated = Tail(@)])
           ELSE SetPoller(p, [poller[p] EXCEPT !.pc = "enqueue"])
    /\ UNCHANGED <<notOrch, listing, remote, parsed_files, exported, queue, locks,
                   worker, polled>>

\* parser_cls = get_parser(os.path.basename(url));
\* process(url, priority=parser_cls.PRIORITY).  parser_cls.PRIORITY raises
\* AttributeError when get_parser returned None, which ends the run.
PollEnqueue(p) ==
    /\ poller[p].pc = "enqueue"
    /\ LET url == Head(poller[p].updated)
           cls == get_parser(basename(Url(url)))
       IN  IF cls = None
           THEN /\ SetPoller(p, [poller[p] EXCEPT !.pc = "failed"])
                /\ UNCHANGED queue
           ELSE /\ Len(queue) < MaxQueue
                /\ queue' = Append(queue, [url |-> url, priority |-> cls.PRIORITY])
                /\ SetPoller(p, [poller[p] EXCEPT !.pc = "loop",
                                                  !.updated = Tail(@),
                                                  !.enq = @ \cup {url}])
    /\ UNCHANGED <<notOrch, listing, remote, parsed_files, exported, locks, worker,
                   polled>>

\* The loop is over: log the count and return updated_files.
PollReturn(p) ==
    /\ poller[p].pc = "loop"
    /\ poller[p].updated = <<>>
    /\ SetPoller(p, [poller[p] EXCEPT !.pc = "done"])
    /\ polled' = (polled \/ poller[p].run # "dirty")
    /\ UNCHANGED <<notOrch, listing, remote, parsed_files, exported, queue, locks,
                   worker>>

(***************************************************************************)
(* worker.process(url) -> tasks.parse(url=url, export=True)                *)
(***************************************************************************)
SetWorker(w, rec) == worker' = [worker EXCEPT ![w] = rec]

\* The position in the queue of the task a worker takes next: the highest
\* priority first, the oldest among equals.
NextTask ==
    CHOOSE i \in 1..Len(queue) :
        /\ \A j \in 1..Len(queue) : queue[j].priority <= queue[i].priority
        /\ \A j \in 1..(i - 1) : queue[j].priority < queue[i].priority

Without(seq, i) == SubSeq(seq, 1, i - 1) \o SubSeq(seq, i + 1, Len(seq))

\* A worker takes a pending task off the queue.
Dequeue(w) ==
    /\ worker[w].pc = "idle"
    /\ queue # <<>>
    /\ SetWorker(w, [IdleWorker EXCEPT !.pc = "dequeued",
                                       !.url = queue[NextTask].url])
    /\ queue' = Without(queue, NextTask)
    /\ UNCHANGED <<notOrch, listing, remote, parsed_files, exported, locks, poller,
                   polled>>

\* with huey.lock_task(url): entering takes the lock, or raises
\* TaskLockedException when the lock is held, which ends the task.
AcquireLock(w) ==
    /\ worker[w].pc = "dequeued"
    /\ IF is_locked(worker[w].url)
       THEN /\ SetWorker(w, IdleWorker)
            /\ UNCHANGED locks
       ELSE /\ locks' = [locks EXCEPT ![worker[w].url] = [age |-> 0, owner |-> w]]
            /\ SetWorker(w, [worker[w] EXCEPT !.pc = "download"])
    /\ UNCHANGED <<notOrch, listing, remote, parsed_files, exported, queue, poller,
                   polled>>

\* Leaving the with block, normally or by an exception, deletes the lock.
ReleaseLock(w) == locks' = [locks EXCEPT ![worker[w].url] = NoLock]

\* parser_cls = get_parser(...); parser = parser_cls(...); parser.download();
\* fingerprint = dwd_fingerprint(parser.path).  Calling None raises TypeError.
Download(w) ==
    /\ worker[w].pc = "download"
    /\ IF get_parser(basename(Url(worker[w].url))) = None
       THEN /\ SetWorker(w, IdleWorker)
            /\ ReleaseLock(w)
       ELSE /\ SetWorker(w, [worker[w] EXCEPT !.pc = "parse",
                                !.fingerprint = remote[worker[w].url]])
            /\ UNCHANGED locks
    /\ UNCHANGED <<notOrch, listing, remote, parsed_files, exported, queue, poller,
                   polled>>

\* records = list(parser.parse()): the generator yields one more record, or
\* is exhausted and the list is complete.
ParseRecord(w) ==
    /\ worker[w].pc = "parse"
    /\ IF worker[w].records < MaxRecords
       THEN SetWorker(w, [worker[w] EXCEPT !.records = @ + 1])
       ELSE SetWorker(w, [worker[w] EXCEPT !.pc = "cleanup"])
    /\ UNCHANGED <<notOrch, listing, remote, parsed_files, exported, queue, locks,
                   poller, polled>>

\* parser.cleanup()
Cleanup(w) ==
    /\ worker[w].pc = "cleanup"
    /\ SetWorker(w, [worker[w] EXCEPT !.pc = "export"])
    /\ UNCHANGED <<notOrch, listing, remote, parsed_files, exported, queue, locks,
                   poller, polled>>

\* Export as a streaming exporter would do it: records and fingerprint are
\* handed over while parse() is still producing records.
Export_while_parsing(w) ==
    /\ worker[w].pc \in {"parse", "export"}
    /\ parsed_files' = [parsed_files EXCEPT ![worker[w].url] = worker[w].fingerprint]
    /\ exported' = [exported EXCEPT ![worker[w].url] = worker[w].records]
    /\ ReleaseLock(w)
    /\ SetWorker(w, IdleWorker)
    /\ UNCHANGED <<notOrch, listing, remote, queue, poller, polled>>

\* exporter.export(records, fingerprint=fingerprint), then the with block
\* ends and process returns.
Export(w) ==
    /\ worker[w].pc = "export"
    /\ parsed_files' = [parsed_files EXCEPT ![worker[w].url] = worker[w].fingerprint]
    /\ exported' = [exported EXCEPT ![worker[w].url] = worker[w].records]
    /\ ReleaseLock(w)
    /\ SetWorker(w, IdleWorker)
    /\ UNCHANGED <<notOrch, listing, remote, queue, poller, polled>>

\* download, parse, cleanup or export raises: the exception leaves the with
\* block, and the task has failed.
Raise(w) ==
    /\ worker[w].pc \in Body
    /\ ReleaseLock(w)
    /\ SetWorker(w, IdleWorker)
    /\ UNCHANGED <<notOrch, listing, remote, parsed_files, exported, queue, poller,
                   polled>>

\* The worker process dies inside the task and is started again: nothing is
\* released.
Crash(w) ==
    /\ worker[w].pc \in Body \cup {"dequeued"}
    /\ SetWorker(w, IdleWorker)
    /\ UNCHANGED <<notOrch, listing, remote, parsed_files, exported, queue, locks,
                   poller, polled>>

(***************************************************************************)
(* The environment: time passes, the remote server changes.               *)
(***************************************************************************)
Tick ==
    /\ \E r \in Resources : is_locked(r) /\ locks[r].age < MaxAgeTicks
    /\ locks' = [r \in Resources |->
                    IF is_locked(r) /\ locks[r].age < MaxAgeTicks
                    THEN [locks[r] EXCEPT !.age = @ + 1] ELSE locks[r]]
    /\ UNCHANGED <<notOrch, listing, remote, parsed_files, exported, queue, worker,
                   poller, polled>>

Dirty == [p \in Pollers |-> [poller[p] EXCEPT !.run = "dirty"]]

RemoteChange(r) ==
    /\ r \in Listed
    /\ remote[r] < MaxVersion
    /\ remote' = [remote EXCEPT ![r] = @ + 1]
    /\ poller' = Dirty
    /\ polled' = FALSE
    /\ UNCHANGED <<notOrch, listing, parsed_files, exported, queue, locks, worker>>

\* A new file appears in the listing, at any place of it.
RemotePublish(r) ==
    /\ r \notin Listed
    /\ \E i \in 0..Len(listing) :
        listing' = SubSeq(listing, 1, i) \o <<r>> \o SubSeq(listing, i + 1, Len(listing))
    /\ poller' = Dirty
    /\ polled' = FALSE
    /\ UNCHANGED <<notOrch, remote, parsed_files, exported, queue, locks, worker>>

\* One poll run at a time (the periodic task) and two workers.
Next ==
    \/ \E p \in {"p1"} :
        \/ PollStart(p)
        \/ PollExpireLocks(p)
        \/ PollReadPending(p)
        \/ PollCheck(p)
        \/ PollEnqueue(p)
        \/ PollReturn(p)
    \/ \E w \in Workers :
        \/ Dequeue(w)
        \/ AcquireLock(w)
        \/ Download(w)
        \/ ParseRecord(w)
        \/ Cleanup(w)
        \/ Export(w)
        \/ Raise(w)
        \/ Crash(w)
    \/ Tick
    \/ \E r \in Resources : RemoteChange(r)
    \/ RemotePublish("readme")

Spec == Init /\ [][Next]_vars


\* Two poll runs that may overlap (a run that outlasts the period), with
\* one worker, over a listing of one resource.
PollsInit ==
    /\ OrchInit
    /\ DispatchIdle
    /\ HistoryIdle
    /\ SanitizeIdle
    /\ GustsIdle
    /\ TaskIdle

NextPolls ==
    \/ \E p \in Pollers :
        \/ PollStart(p)
        \/ PollExpireLocks(p)
        \/ PollReadPending(p)
        \/ PollCheck(p)
        \/ PollEnqueue(p)
        \/ PollReturn(p)
    \/ \E w \in {"w1"} :
        \/ Dequeue(w)
        \/ AcquireLock(w)
        \/ Download(w)
        \/ ParseRecord(w)
        \/ Cleanup(w)
        \/ Export(w)
        \/ Raise(w)
        \/ Crash(w)
    \/ Tick
    \/ RemoteChange("wind")

SpecPolls == PollsInit /\ [][NextPolls]_vars

(***************************************************************************)
(* Properties of the orchestrator.                                         *)
(***************************************************************************)
Pending(r) == {i \in 1..Len(queue) : queue[i].url = r}
Executing(r) == {w \in Workers : worker[w].pc # "idle" /\ worker[w].url = r}
PollActive(p) == poller[p].pc \in {"expire", "pending", "loop", "enqueue"}

\* C1: for every url, the pending process(url) tasks plus the workers
\* executing process(url) are at most one.
C1_AtMostOneTaskPerUrl ==
    \A r \in Resources : Cardinality(Pending(r)) + Cardinality(Executing(r)) <= 1

\* C2: two poll runs that are under way together have not both enqueued
\* the same url.
C2_ConcurrentPollsEnqueueOnce ==
    \A p \in Pollers : \A q \in Pollers \ {p} :
        PollActive(p) /\ PollActive(q) => poller[p].enq \cap poller[q].enq = {}

\* C3: a poll run that started after another run completed, with no remote
\* change since that run started, has enqueued nothing.
C3_SecondPollEnqueuesNothing ==
    \A p \in Pollers : poller[p].run = "second" => poller[p].enq = {}


PollStep(p) == poller'[p].pc # poller[p].pc
Young(r) == is_locked(r) /\ locks[r].age * TickSeconds < LockTimeout
Owed(p) == poller[p].owed \ poller[p].pending_urls

\* C4: a poll run that started when the lock a crashed worker left on u was
\* older than the timeout removes the lock in its expiry step and, u being
\* a candidate and not pending, has enqueued u when it ends; no step of a
\* poll removes a lock younger than the timeout, and the loop skips a url
\* under such a lock.
C4_StaleLockRecovery ==
    [][\A p \in Pollers :
        /\ PollExpireLocks(p) =>
              \A r \in Resources : Stale(r) /\ Expired(r) => ~is_locked(r)'
        /\ PollStep(p) =>
              \A r \in Resources : Young(r) => locks'[r] = locks[r]
        /\ PollCheck(p) /\ Young(Head(poller[p].updated)) =>
              /\ poller'[p].pc = "loop"
              /\ poller'[p].updated = Tail(poller[p].updated)
        /\ poller'[p].pc \in {"done", "failed"} => Owed(p)' \subseteq poller'[p].enq
      ]_vars

\* C5: a worker that is between download and export holds the lock of its
\* url, and a process(url) that ends without a crash no longer does.
C5_LockHeldThenReleased ==
    [][\A w \in Workers :
        /\ worker'[w].pc \in Body => locks'[worker'[w].url].owner = w
        /\ Export(w) \/ Raise(w) \/ Download(w) \/ AcquireLock(w) =>
              (worker'[w].pc = "idle" => locks'[worker[w].url].owner # w)
      ]_vars

\* C6: the store changes for a url only in the export step of a worker
\* that downloaded the url and holds the complete record list, and then
\* takes that fingerprint and those records; a process(url) that ends in
\* download or parsing leaves the store as it was, so a url that was a
\* changed candidate still is one.
C6_ExportAllOrNothing ==
    [][/\ \A r \in Resources :
            parsed_files'[r] # parsed_files[r] \/ exported'[r] # exported[r] =>
                \E w \in Workers :
                    /\ worker[w].url = r
                    /\ worker[w].pc = "export"
                    /\ worker[w].fingerprint # 0
                    /\ worker[w].records = MaxRecords
                    /\ parsed_files'[r] = worker[w].fingerprint
                    /\ exported'[r] = MaxRecords
       /\ \A w \in Workers :
            worker[w].pc \in {"download", "parse"} /\ worker'[w].pc = "idle" =>
                /\ parsed_files' = parsed_files
                /\ exported' = exported
                /\ Changed(worker[w].url) =>
                      parsed_files'[worker[w].url] # remote'[worker[w].url]
      ]_vars

\* C6 witness: one task exported its complete records and fingerprint while
\* another task for the same url is still parsing.
C6_Witness ==
    \E r \in Resources : \E w \in Workers :
        /\ exported[r] = MaxRecords
        /\ parsed_files[r] = remote[r]
        /\ worker[w].url = r
        /\ worker[w].pc = "parse"


(***************************************************************************)
(* The dispatcher on its own: tasks.parse(url=filename) up to the          *)
(* construction of the parser, for bounded resource names.                 *)
(***************************************************************************)
MaxSegments == 2    \* a resource name is made of at most this many segments

Segments ==
    { Lit_MOSMIX, Lit_BEOB, Lit_FX,
      Stundenwerte \o <<"F", "F", "_">>,
      Stundenwerte \o <<"N", "_">>,
      Stundenwerte \o <<"V", "V", "_">>,
      <<"1", "0", "6", "3", "7">>,
      <<"x">>,
      <<".", "z", "i", "p">>,
      Directory }

RECURSIVE NamesOf(_)
NamesOf(n) ==
    IF n = 0 THEN {<<>>}
    ELSE NamesOf(n - 1) \cup {a \o b : a \in NamesOf(n - 1), b \in Segments}

Names == NamesOf(MaxSegments)

Matching(name) == {i \in 1..Len(parsers) : re_match(parsers[i].pattern, name)}

DispatchInit ==
    /\ OrchInit
    /\ HistoryIdle
    /\ SanitizeIdle
    /\ GustsIdle
    /\ TaskIdle
    /\ filename \in Names
    /\ parser_cls = None
    /\ parse_outcome = "-"

\* if not path and not url: raise ValueError(...)
\* parser_cls = get_parser(os.path.basename(path or url))
ParseDispatch ==
    /\ parse_outcome = "-"
    /\ IF filename = <<>>
       THEN /\ parse_outcome' = "ValueError"
            /\ UNCHANGED parser_cls
       ELSE /\ parser_cls' = get_parser(basename(filename))
            /\ parse_outcome' = "dispatched"
    /\ UNCHANGED <<orchVars, historyVars, sanitizeVars, gustVars, taskVars, filename>>

\* parser = parser_cls(path=path, url=url): calling None raises TypeError.
ParseConstruct ==
    /\ parse_outcome = "dispatched"
    /\ parse_outcome' = IF parser_cls = None THEN "TypeError" ELSE "constructed"
    /\ UNCHANGED <<orchVars, historyVars, sanitizeVars, gustVars, taskVars, filename, parser_cls>>

NextDispatch == ParseDispatch \/ ParseConstruct

SpecDispatch == DispatchInit /\ [][NextDispatch]_vars

\* C7: what get_parser returned is the parser of the first rule, in table
\* order, whose pattern matches the name; when no rule matches, no parser
\* is constructed and the call ends in the error.
C7_FirstMatchOrFatal ==
    parse_outcome \notin {"-", "ValueError"} =>
        LET name == basename(filename)
        IN  IF Matching(name) = {}
            THEN /\ parser_cls = None
                 /\ parse_outcome \in {"dispatched", "TypeError"}
            ELSE /\ \E i \in Matching(name) :
                        /\ \A j \in Matching(name) : i <= j
                        /\ parser_cls = parsers[i].parser
                 /\ parse_outcome \in {"dispatched", "constructed"}

\* C7 witness: a name no rule matches has ended in the error.
C7_Witness ==
    /\ filename # <<>>
    /\ Matching(basename(filename)) = {}
    /\ parse_outcome = "TypeError"


(***************************************************************************)
(* The station location resolver: ObservationsParser.parse_lat_lon_history *)
(* and ObservationsParser._station_params.  Dates are day numbers.         *)
(***************************************************************************)
MaxGeoRows == 3     \* rows of a geography-metadata file
MaxDate == 3        \* effective dates are 1..MaxDate

\* The location written in row i of the file.
Location(i) == [station_name |-> i]

RECURSIVE SeqsUpTo(_, _)
SeqsUpTo(S, n) ==
    IF n = 0 THEN {<<>>}
    ELSE SeqsUpTo(S, n - 1)
            \cup {Append(q, x) : q \in SeqsUpTo(S, n - 1), x \in S}

\* The files: row i carries an effective date (von_datum) and Location(i).
GeoFiles ==
    {[i \in 1..Len(dates) |-> [von_datum |-> dates[i], location |-> Location(i)]] :
        dates \in SeqsUpTo(1..MaxDate, MaxGeoRows)}

\* history[date_from] = (...): a new key goes to the end of the dict, a key
\* already there keeps its place and takes the new value.
dict_set(d, key, value) ==
    IF \E k \in 1..Len(d) : d[k][1] = key
    THEN [k \in 1..Len(d) |-> IF d[k][1] = key THEN <<key, value>> ELSE d[k]]
    ELSE Append(d, <<key, value>>)

\* The loop of _station_params over history.items() from item k on, with
\* the info found so far.
RECURSIVE station_params_from(_, _, _, _)
station_params_from(k, found, timestamp, lat_lon_history) ==
    IF k > Len(lat_lon_history) THEN found
    ELSE IF lat_lon_history[k][1] > timestamp THEN found
    ELSE station_params_from(k + 1, lat_lon_history[k][2], timestamp,
                             lat_lon_history)

\* _station_params with the break taken on date >= timestamp.
RECURSIVE station_params_exclusive_from(_, _, _, _)
station_params_exclusive_from(k, found, timestamp, lat_lon_history) ==
    IF k > Len(lat_lon_history) THEN found
    ELSE IF lat_lon_history[k][1] >= timestamp THEN found
    ELSE station_params_exclusive_from(k + 1, lat_lon_history[k][2],
                                       timestamp, lat_lon_history)

station_params_exclusive(timestamp, lat_lon_history) ==
    station_params_exclusive_from(1, None, timestamp, lat_lon_history)

station_params(timestamp, lat_lon_history) ==
    station_params_from(1, None, timestamp, lat_lon_history)

HistoryInit ==
    /\ OrchInit
    /\ DispatchIdle
    /\ SanitizeIdle
    /\ GustsIdle
    /\ TaskIdle
    /\ geo_rows \in GeoFiles
    /\ geo_reader = geo_rows
    /\ history = <<>>
    /\ lookup_time \in 0..(MaxDate + 1)
    /\ info = None
    /\ history_pc = "reading"

\* One turn of the loop of parse_lat_lon_history.
HistoryRow ==
    /\ history_pc = "reading"
    /\ geo_reader # <<>>
    /\ history' = dict_set(history, Head(geo_reader).von_datum,
                           Head(geo_reader).location)
    /\ geo_reader' = Tail(geo_reader)
    /\ UNCHANGED <<orchVars, dispatchVars, sanitizeVars, gustVars, taskVars, geo_rows,
                   lookup_time, info, history_pc>>

\* return history
HistoryReturn ==
    /\ history_pc = "reading"
    /\ geo_reader = <<>>
    /\ history_pc' = "built"
    /\ UNCHANGED <<orchVars, dispatchVars, sanitizeVars, gustVars, taskVars, geo_rows, geo_reader,
                   history, lookup_time, info>>

\* self._station_params(timestamp, lat_lon_history)
StationParams ==
    /\ history_pc = "built"
    /\ info' = station_params(lookup_time, history)
    /\ history_pc' = "resolved"
    /\ UNCHANGED <<orchVars, dispatchVars, sanitizeVars, gustVars, taskVars, geo_rows, geo_reader,
                   history, lookup_time>>

NextHistory == HistoryRow \/ HistoryReturn \/ StationParams

SpecHistory == HistoryInit /\ [][NextHistory]_vars

\* The entry the file gives for the greatest effective date <= t: the last
\* row written for that date; None when no row qualifies.
Qualifying(rows, t) == {i \in 1..Len(rows) : rows[i].von_datum <= t}
GreatestEntry(rows, t) ==
    IF Qualifying(rows, t) = {} THEN None
    ELSE LET i == CHOOSE i \in Qualifying(rows, t) :
                    \A j \in Qualifying(rows, t) :
                        \/ rows[j].von_datum < rows[i].von_datum
                        \/ rows[j].von_datum = rows[i].von_datum /\ j <= i
         IN  rows[i].location

Ascending(rows) ==
    \A i \in 1..Len(rows) : \A j \in i..Len(rows) :
        rows[i].von_datum <= rows[j].von_datum

\* C9 as stated: whatever the order of the rows, _station_params returns
\* the entry with the greatest effective date <= T, None when there is none.
C9_AnyOrder ==
    history_pc = "resolved" => info = GreatestEntry(geo_rows, lookup_time)

\* C9 as amended: the same, for a file whose rows are in ascending order of
\* effective date.
C9_AscendingRows ==
    history_pc = "resolved" /\ Ascending(geo_rows) =>
        info = GreatestEntry(geo_rows, lookup_time)

\* C9 witness: a history of two effective dates, looked up exactly at the
\* later one, resolved to the entry of that date.
C9_Witness ==
    /\ history_pc = "resolved"
    /\ Ascending(geo_rows)
    /\ Len(history) >= 2
    /\ lookup_time = history[Len(history)][1]
    /\ info = history[Len(history)][2]


(***************************************************************************)
(* MOSMIXParser.sanitize_records.  Precipitation is in tenths of a         *)
(* millimetre, wind direction in degrees.                                  *)
(***************************************************************************)
MaxForecast == 2    \* records handed to sanitize_records

PrecipitationValues == {None, Float(-1), Float(0), Float(7)}
DirectionValues == {None, Float(0), Float(360), Float(361), Float(750)}

\* A forecast record: the two fields sanitize_records looks at, and the
\* timestamp and temperature standing for the fields it does not.
ForecastRecords ==
    [timestamp : {1}, temperature : {Float(280)},
     precipitation : PrecipitationValues, wind_direction : DirectionValues]

\* The forecasts: record i carries timestamp i.
Forecasts ==
    {[i \in 1..Len(q) |-> [q[i] EXCEPT !.timestamp = i]] :
        q \in SeqsUpTo(ForecastRecords, MaxForecast)}

\* if r['precipitation'] and r['precipitation'] < 0: r['precipitation'] = None
sanitize_precipitation(r) ==
    IF Truthy(r.precipitation) /\ r.precipitation.float < 0
    THEN [r EXCEPT !.precipitation = None]
    ELSE r

\* The wind direction check written with >= 360.
sanitize_wind_direction_inclusive(r) ==
    IF Truthy(r.wind_direction) /\ r.wind_direction.float >= 360
    THEN [r EXCEPT !.wind_direction = Float(@.float - 360)]
    ELSE r

\* if r['wind_direction'] and r['wind_direction'] > 360: r['wind_direction'] -= 360
sanitize_wind_direction(r) ==
    IF Truthy(r.wind_direction) /\ r.wind_direction.float > 360
    THEN [r EXCEPT !.wind_direction = Float(@.float - 360)]
    ELSE r

SanitizeInit ==
    /\ OrchInit
    /\ DispatchIdle
    /\ HistoryIdle
    /\ GustsIdle
    /\ TaskIdle
    /\ forecast \in Forecasts
    /\ forecast_left = forecast
    /\ sanitized = <<>>

\* One turn of the loop of sanitize_records: both checks, then yield r.
SanitizeRecord ==
    /\ forecast_left # <<>>
    /\ sanitized' = Append(sanitized,
            sanitize_wind_direction(sanitize_precipitation(Head(forecast_left))))
    /\ forecast_left' = Tail(forecast_left)
    /\ UNCHANGED <<orchVars, dispatchVars, historyVars, gustVars, taskVars, forecast>>

NextSanitize == SanitizeRecord

SpecSanitize == SanitizeInit /\ [][NextSanitize]_vars

\* C10: every record yielded is the record handed in at the same place,
\* with a precipitation < 0 replaced by null, a wind direction > 360
\* reduced by 360, and every other value, null included, as it was; at
\* the end as many records have been yielded as were handed in.
C10_Sanitization ==
    /\ Len(sanitized) + Len(forecast_left) = Len(forecast)
    /\ \A k \in 1..Len(sanitized) :
        LET r == forecast[k]
            out == sanitized[k]
        IN  /\ out.timestamp = r.timestamp
            /\ out.temperature = r.temperature
            /\ out.precipitation =
                 IF r.precipitation # None /\ r.precipitation.float < 0
                 THEN None ELSE r.precipitation
            /\ out.wind_direction =
                 IF r.wind_direction # None /\ r.wind_direction.float > 360
                 THEN Float(r.wind_direction.float - 360) ELSE r.wind_direction

\* C10 witness: both records of a forecast have been yielded, the first
\* with a negative precipitation nulled and a direction of 360 kept, the
\* second with a precipitation of 0 kept and a direction above 360 reduced.
C10_Witness ==
    /\ Len(forecast) = 2
    /\ forecast_left = <<>>
    /\ forecast[1].precipitation = Float(-1)
    /\ sanitized[1].precipitation = None
    /\ forecast[1].wind_direction = Float(360)
    /\ sanitized[1].wind_direction = Float(360)
    /\ forecast[2].precipitation = Float(0)
    /\ sanitized[2].precipitation = Float(0)
    /\ forecast[2].wind_direction = Float(361)
    /\ sanitized[2].wind_direction = Float(1)

(***************************************************************************)
(* WindGustsObservationsParser.parse_reader: the hourly maximum of the     *)
(* 10-minute gust samples.  Timestamps are minutes; a row carries the raw  *)
(* fields MESS_DATUM, FX_10 (speed) and DX_10 (direction), with -999 for a *)
(* missing value.                                                          *)
(***************************************************************************)
MaxGustRows == 3    \* rows after the first row of a product file

Missing == -999
RawSpeeds == {Missing, 0, 1, 2}

\* The minutes of the samples after the first row (which is at minute 0):
\* the slots around two top-of-hour marks.
GustMinutes == {10, 50, 60, 70, 110, 120}

\* The rows for the minutes of S in ascending order, speeds given by f; the
\* direction of a sample is its minute, so that it names the sample.
RECURSIVE RowsOf(_, _)
RowsOf(S, f) ==
    IF S = {} THEN <<>>
    ELSE LET m == CHOOSE m \in S : \A n \in S : m <= n
         IN  <<[MESS_DATUM |-> m, FX_10 |-> f[m], DX_10 |-> m]>>
                \o RowsOf(S \ {m}, f)

GustFiles ==
    {<<>>} \cup
    {<<[MESS_DATUM |-> 0, FX_10 |-> 1, DX_10 |-> 0]>> \o RowsOf(S, f) :
        S \in {T \in SUBSET GustMinutes : Cardinality(T) <= MaxGustRows},
        f \in [GustMinutes -> RawSpeeds]}

Suffix_akt == <<"_", "a", "k", "t", ".", "z", "i", "p">>
Suffix_hist == <<"_", "h", "i", "s", "t", ".", "z", "i", "p">>
Suffix_now == <<"_", "n", "o", "w", ".", "z", "i", "p">>
GustPaths == {<<"d", "/", "f", "x">> \o x :
                x \in {Suffix_akt, Suffix_hist, Suffix_now}}

\* The settings a deployment may run with.
GustSettings ==
    {[MIN_DATE |-> 0, MAX_DATE |-> None],
     [MIN_DATE |-> 130, MAX_DATE |-> None],
     [MIN_DATE |-> 0, MAX_DATE |-> [minute |-> 170]]}

\* The station has been at its place since before the file's first row.
GustHistory == <<<<0, Location(1)>>>>

endswith(str, suffix) ==
    /\ Len(str) >= Len(suffix)
    /\ SubSeq(str, Len(str) - Len(suffix) + 1, Len(str)) = suffix

ValueError == "ValueError"
TypeError == [raised |-> "TypeError"]

\* parse_observation_type with the two suffixes taken for one another.
parse_observation_type_swapped(path) ==
    IF endswith(basename(path), Suffix_akt) THEN "historical"
    ELSE IF endswith(basename(path), Suffix_hist) THEN "recent"
    ELSE ValueError

parse_observation_type(path) ==
    IF endswith(basename(path), Suffix_akt) THEN "recent"
    ELSE IF endswith(basename(path), Suffix_hist) THEN "historical"
    ELSE ValueError

skip_timestamp(t) ==
    \/ t < settings.MIN_DATE
    \/ settings.MAX_DATE # None /\ t > settings.MAX_DATE.minute

\* float(row[key]) unless the field is -999; no converter and no ignored
\* value is declared for the gust elements.
parse_element(raw) == IF raw # Missing THEN Float(raw) ELSE None

parse_elements(row) ==
    [wind_gust_direction |-> parse_element(row.DX_10),
     wind_gust_speed |-> parse_element(row.FX_10)]

\* max(hour_values, key=speed) from item k on: a later item replaces the
\* best so far only when its key is strictly greater.
RECURSIVE max_from(_, _, _)
max_from(k, best, values) ==
    IF k > Len(values) THEN best
    ELSE IF values[k].wind_gust_speed.float > best.wind_gust_speed.float
    THEN max_from(k + 1, values[k], values)
    ELSE max_from(k + 1, best, values)

max_by_speed(values) == max_from(2, values[1], values)

make_record(t, values, lat_lon_history) ==
    LET params == station_params(t, lat_lon_history)
    IN  IF params = None THEN TypeError
        ELSE [station_name |-> params.station_name,
              timestamp |-> t,
              wind_gust_direction |->
                  IF values # <<>>
                  THEN max_by_speed(values).wind_gust_direction ELSE None,
              wind_gust_speed |->
                  IF values # <<>>
                  THEN max_by_speed(values).wind_gust_speed ELSE None]

GustsInit ==
    /\ OrchInit
    /\ DispatchIdle
    /\ HistoryIdle
    /\ SanitizeIdle
    /\ TaskIdle
    /\ settings \in GustSettings
    /\ gust_path \in GustPaths
    /\ gust_rows \in GustFiles
    /\ reader = gust_rows
    /\ row_timestamp = Unbound
    /\ hour_values = <<>>
    /\ gust_records = <<>>
    /\ gust_pc = "start"

\* hour_values = []; next(reader): the first row is dropped unread, and a
\* file without rows ends the generator with an error.
GustsSkipFirst ==
    /\ gust_pc = "start"
    /\ IF reader = <<>>
       THEN gust_pc' = "failed" /\ UNCHANGED reader
       ELSE gust_pc' = "loop" /\ reader' = Tail(reader)
    /\ UNCHANGED <<orchVars, dispatchVars, historyVars, sanitizeVars, taskVars, settings,
                   gust_path, gust_rows, row_timestamp, hour_values,
                   gust_records>>

\* One turn of the loop over the rows.
GustsRow ==
    /\ gust_pc = "loop"
    /\ reader # <<>>
    /\ LET row == Head(reader)
           t == row.MESS_DATUM
           values == parse_elements(row)
           kept == IF Truthy(values.wind_gust_speed)
                   THEN Append(hour_values, values) ELSE hour_values
           record == make_record(t, kept, GustHistory)
       IN  /\ reader' = Tail(reader)
           /\ row_timestamp' = t
           /\ IF skip_timestamp(t + 60)
              THEN UNCHANGED <<hour_values, gust_records, gust_pc>>
              ELSE IF t % 60 # 0
              THEN hour_values' = kept /\ UNCHANGED <<gust_records, gust_pc>>
              ELSE IF record = TypeError
              THEN /\ hour_values' = kept
                   /\ gust_pc' = "failed"
                   /\ UNCHANGED gust_records
              ELSE /\ gust_records' = Append(gust_records, record)
                   /\ hour_values' = <<>>
                   /\ UNCHANGED gust_pc
    /\ UNCHANGED <<orchVars, dispatchVars, historyVars, sanitizeVars, taskVars, settings,
                   gust_path, gust_rows>>

\* After the loop: the trailing group of a historical file that ends at :50
\* goes out under the next top-of-hour timestamp.
GustsTail ==
    /\ gust_pc = "loop"
    /\ reader = <<>>
    /\ LET observation_type == parse_observation_type(gust_path)
           record == make_record(row_timestamp + 10, hour_values, GustHistory)
       IN  IF observation_type = ValueError
           THEN gust_pc' = "failed" /\ UNCHANGED gust_records
           ELSE IF observation_type # "historical"
           THEN gust_pc' = "done" /\ UNCHANGED gust_records
           ELSE IF row_timestamp = Unbound
           THEN gust_pc' = "failed" /\ UNCHANGED gust_records
           ELSE IF row_timestamp % 60 # 50
           THEN gust_pc' = "done" /\ UNCHANGED gust_records
           ELSE IF record = TypeError
           THEN gust_pc' = "failed" /\ UNCHANGED gust_records
           ELSE /\ gust_records' = Append(gust_records, record)
                /\ gust_pc' = "done"
    /\ UNCHANGED <<orchVars, dispatchVars, historyVars, sanitizeVars, taskVars, settings,
                   gust_path, gust_rows, reader, row_timestamp, hour_values>>

NextGusts == GustsSkipFirst \/ GustsRow \/ GustsTail

SpecGusts == GustsInit /\ [][NextGusts]_vars

\* The rows after the first one, which parse_reader never reads.
TopOfHour(i) == gust_rows[i].MESS_DATUM % 60 = 0
Retained(i) == ~skip_timestamp(gust_rows[i].MESS_DATUM + 60)
PrevTop(i) ==
    CHOOSE k \in 1..(i - 1) :
        TopOfHour(k) /\ \A j \in (k + 1)..(i - 1) : ~TopOfHour(j)
Group(i) == {j \in (PrevTop(i) + 1)..i : Retained(j)}
NonNull(i) == {j \in Group(i) : gust_rows[j].FX_10 # Missing}
MaxSample(i) ==
    CHOOSE j \in NonNull(i) :
        \A k \in NonNull(i) :
            \/ gust_rows[k].FX_10 < gust_rows[j].FX_10
            \/ gust_rows[k].FX_10 = gust_rows[j].FX_10 /\ j <= k
RecordsAt(t) ==
    {k \in 1..Len(gust_records) : gust_records[k].timestamp = t}

\* C8: once the file is read, every retained top-of-hour row has exactly
\* one record, whose gust speed and direction are those of the first sample
\* with the greatest non-null speed of its group (a greatest speed of 0
\* included), and are both null when the group has no non-null speed.
C8_HourlyMaximum ==
    gust_pc = "done" =>
        \A i \in 2..Len(gust_rows) :
            TopOfHour(i) /\ Retained(i) =>
                /\ Cardinality(RecordsAt(gust_rows[i].MESS_DATUM)) = 1
                /\ \A k \in RecordsAt(gust_rows[i].MESS_DATUM) :
                    IF NonNull(i) = {}
                    THEN /\ gust_records[k].wind_gust_speed = None
                         /\ gust_records[k].wind_gust_direction = None
                    ELSE /\ gust_records[k].wind_gust_speed =
                                Float(gust_rows[MaxSample(i)].FX_10)
                         /\ gust_records[k].wind_gust_direction =
                                Float(gust_rows[MaxSample(i)].DX_10)


\* C11: every record the wind-gust aggregator has emitted, hourly or from
\* the trailing flush, has a timestamp >= MIN_DATE and, when MAX_DATE is
\* set, <= MAX_DATE.
C11_RetentionWindow ==
    \A k \in 1..Len(gust_records) :
        /\ gust_records[k].timestamp >= settings.MIN_DATE
        /\ settings.MAX_DATE # None =>
               gust_records[k].timestamp <= settings.MAX_DATE.minute

\* The trailing group: what parse_reader has emitted beyond the hourly
\* records once it has ended, for a file of a known observation type.
Hourly == {i \in 2..Len(gust_rows) : TopOfHour(i) /\ Retained(i)}
LastRow == gust_rows[Len(gust_rows)].MESS_DATUM
LastTop ==
    CHOOSE k \in 1..Len(gust_rows) :
        TopOfHour(k) /\ \A j \in (k + 1)..Len(gust_rows) : ~TopOfHour(j)
HistoricalFile == endswith(gust_path, Suffix_hist)
RecentFile == endswith(gust_path, Suffix_akt)
EndsAtFifty ==
    /\ HistoricalFile
    /\ Len(gust_rows) >= 2
    /\ LastRow % 60 = 50
Ended ==
    /\ gust_pc \in {"done", "failed"}
    /\ gust_rows # <<>>
    /\ HistoricalFile \/ RecentFile
FlushedAs(t) ==
    IF EndsAtFifty
    THEN /\ gust_pc = "done"
         /\ Len(gust_records) = Cardinality(Hourly) + 1
         /\ LET extra == gust_records[Len(gust_records)]
            IN  /\ extra.timestamp = t
                /\ \/ extra.wind_gust_direction = None
                   \/ \E j \in (LastTop + 1)..Len(gust_rows) :
                        extra.wind_gust_direction = Float(gust_rows[j].DX_10)
    ELSE Len(gust_records) = Cardinality(Hourly)

Recognized(r) == get_parser(basename(Url(r))) # None

\* The changed files listed after the one the run of p stopped at.
LeftOver(p) ==
    {poller[p].updated[i] : i \in 2..Len(poller[p].updated)}

\* C14: when a poll run has failed on an unrecognized file, no recognized
\* file of the same run that is neither pending nor locked is left without
\* having been enqueued.
C14_FailureConfined ==
    \A p \in Pollers :
        poller[p].pc = "failed" =>
            \A r \in LeftOver(p) :
                Recognized(r) /\ r \notin poller[p].pending_urls /\ ~is_locked(r)
                    => r \in poller[p].enq

(***************************************************************************)
(* One call tasks.parse(url=url, export=True) with the files it touches:   *)
(* the archive it downloads, opens and removes.  Dates are the numbers     *)
(* YYYYMMDD, which are ordered as the days they name.                      *)
(***************************************************************************)
Digits == <<"0", "1", "2", "3", "4", "5", "6", "7", "8", "9">>
IsDigit(c) == \E d \in 1..Len(Digits) : Digits[d] = c
DigitValue(c) == (CHOOSE d \in 1..Len(Digits) : Digits[d] = c) - 1

\* datetime.strptime(str, '%Y%m%d') for a string of digits.
RECURSIVE strptime(_)
strptime(str) ==
    IF str = <<>> THEN 0
    ELSE 10 * strptime(SubSeq(str, 1, Len(str) - 1)) + DigitValue(str[Len(str)])

\* \d{8} at positions from..from+7 of str
EightDigits(str, from) == \A k \in from..(from + 7) : IsDigit(str[k])

\* The start and end dates archive names carry.
ArchiveDates ==
    { <<"2", "0", "0", "9", "1", "2", "3", "1">>,
      <<"2", "0", "1", "0", "0", "1", "0", "1">>,
      <<"2", "0", "1", "0", "0", "1", "0", "2">>,
      <<"2", "0", "1", "0", "1", "2", "3", "1">> }

TaskSettings ==
    {[MIN_DATE |-> strptime(<<"2", "0", "1", "0", "0", "1", "0", "1">>),
      MAX_DATE |-> None],
     [MIN_DATE |-> strptime(<<"2", "0", "1", "0", "0", "1", "0", "1">>),
      MAX_DATE |-> [day |-> strptime(<<"2", "0", "1", "0", "0", "1", "0", "2">>)]]}

StationFF == Stundenwerte \o <<"F", "F", "_", "0", "1">>

\* The urls a task may be given: historical archives with a date pair, a
\* historical archive without one, a recent archive, a wind-gust archive,
\* the forecast file, and a file no rule knows.
TaskUrls ==
    {Directory \o StationFF \o <<"_">> \o a \o <<"_">> \o b \o Suffix_hist :
        a \in ArchiveDates, b \in ArchiveDates}
    \cup {Directory \o StationFF \o Suffix_hist,
          Directory \o Lit_FX \o <<"0", "1">> \o Suffix_hist,
          Url("wind"), Url("mosmix"), Url("readme")}

\* The path the metadata archive of a wind-gust archive is cached at.
MetaPath == Directory \o <<"M", "e", "t", "a">>

\* should_skip: Parser's returns False; ObservationsParser's searches the
\* path for _(\d{8})_(\d{8})_hist\.zip$ and compares the two dates with
\* the retention window.
should_skip(cls, path) ==
    LET n == Len(path)
        dated == /\ cls \notin {MOSMIXParser, CurrentObservationsParser}
                 /\ n >= Len(Suffix_hist) + 18
                 /\ endswith(path, Suffix_hist)
                 /\ path[n - Len(Suffix_hist) - 17] = "_"
                 /\ EightDigits(path, n - Len(Suffix_hist) - 16)
                 /\ path[n - Len(Suffix_hist) - 8] = "_"
                 /\ EightDigits(path, n - Len(Suffix_hist) - 7)
        start_date == strptime(SubSeq(path, n - Len(Suffix_hist) - 16,
                                      n - Len(Suffix_hist) - 9))
        end_date == strptime(SubSeq(path, n - Len(Suffix_hist) - 7,
                                    n - Len(Suffix_hist)))
    IN  IF ~dated THEN FALSE
        ELSE IF end_date < settings.MIN_DATE THEN TRUE
        ELSE IF settings.MAX_DATE # None /\ start_date > settings.MAX_DATE.day
        THEN TRUE
        ELSE FALSE

TaskInit ==
    /\ OrchInit
    /\ HistoryIdle
    /\ SanitizeIdle
    /\ settings \in TaskSettings
    /\ gust_path = <<>>
    /\ gust_rows = <<>>
    /\ reader = <<>>
    /\ row_timestamp = Unbound
    /\ hour_values = <<>>
    /\ gust_records = <<>>
    /\ gust_pc = "-"
    /\ filename \in TaskUrls
    /\ parser_cls = None
    /\ parse_outcome = "-"
    /\ keep_downloads \in BOOLEAN
    /\ downloaded_files = {}
    /\ disk = {}
    /\ opened = FALSE
    /\ removed = {}

\* The files the parser's download() fetches: the archive and, for the
\* wind-gust parser, the metadata archive as well.
Fetched ==
    IF parser_cls = ObservationsParserClass("WindGustsObservationsParser")
    THEN {filename, MetaPath} ELSE {filename}

\* parser.download(): _download records every path that download() returns;
\* the wind-gust parser opens the archive for the station id in between.
\* The transfer may fail, which ends parse with the error.
TaskDownload ==
    /\ parse_outcome = "constructed"
    /\ \/ /\ parse_outcome' = "downloaded"
          /\ \E got \in SUBSET Fetched :
                /\ downloaded_files' = got
                /\ disk' = disk \cup Fetched
          /\ opened' = (MetaPath \in Fetched)
       \/ /\ parse_outcome' = "download raised"
          /\ UNCHANGED <<downloaded_files, disk, opened>>
    /\ UNCHANGED <<orchVars, historyVars, sanitizeVars, gustVars, filename,
                   parser_cls, keep_downloads, removed>>

\* records = list(parser.parse()): the archive is opened and read to its
\* end, or an error leaves parse.
TaskParse ==
    /\ parse_outcome = "downloaded"
    /\ filename \in disk
    /\ opened' = TRUE
    /\ parse_outcome' \in {"parsed", "parse raised"}
    /\ UNCHANGED <<orchVars, historyVars, sanitizeVars, gustVars, filename,
                   parser_cls, keep_downloads, downloaded_files, disk, removed>>

\* parser.cleanup(): unless KEEP_DOWNLOADS, os.remove on every recorded
\* path, FileNotFoundError suppressed.
TaskCleanup ==
    /\ parse_outcome = "parsed"
    /\ parse_outcome' = "cleaned"
    /\ IF ~keep_downloads
       THEN /\ disk' = disk \ downloaded_files
            /\ removed' = removed \cup (downloaded_files \cap disk)
       ELSE UNCHANGED <<disk, removed>>
    /\ UNCHANGED <<orchVars, historyVars, sanitizeVars, gustVars, filename,
                   parser_cls, keep_downloads, downloaded_files, opened>>

\* exporter.export(records, fingerprint=fingerprint); return records
TaskExport ==
    /\ parse_outcome = "cleaned"
    /\ parse_outcome' \in {"returned", "export raised"}
    /\ UNCHANGED <<orchVars, historyVars, sanitizeVars, gustVars, taskVars,
                   filename, parser_cls>>

\* Something else removes a downloaded file before cleanup reaches it.
FileVanishes ==
    /\ parse_outcome = "parsed"
    /\ \E path \in disk : disk' = disk \ {path}
    /\ UNCHANGED <<orchVars, historyVars, sanitizeVars, gustVars, filename,
                   parser_cls, parse_outcome, keep_downloads, downloaded_files,
                   opened, removed>>

NextTaskCall ==
    \/ ParseDispatch
    \/ ParseConstruct
    \/ TaskDownload
    \/ TaskParse
    \/ TaskCleanup
    \/ TaskExport
    \/ FileVanishes

SpecTask == TaskInit /\ [][NextTaskCall]_vars

\* C12: a resource that should_skip tells to skip is never opened.
C12_SkippedNotOpened ==
    parser_cls # None /\ should_skip(parser_cls, filename) => ~opened

\* C15: once parse has ended, by returning or by an error from parse() or
\* from export, no recorded download is on disk if KEEP_DOWNLOADS is off,
\* and cleanup has removed nothing if it is on.
C15_CleanupOnEveryOutcome ==
    parse_outcome \in {"returned", "parse raised", "export raised"} =>
        /\ ~keep_downloads => downloaded_files \cap disk = {}
        /\ keep_downloads => removed = {}

============================================================================
